---- MODULE Spec2Model ----
(***************************************************************************)
(* Model of the translator server (server.js, carried in src/README.md     *)
(* lines 151-341): the mode registry TRANSLATION_MODES and the three       *)
(* handlers GET /api/modes, POST /api/translate, POST /api/translate/legacy.*)
(* Each connection carries one request at a time; a handler runs up to its *)
(* await of axios.post in one step and resumes in a second step when the   *)
(* upstream call settles.                                                  *)
(***************************************************************************)
EXTENDS Integers, Sequences, FiniteSets, TLC

VARIABLES
    TRANSLATION_MODES,  \* the registry object, as its own properties in insertion order
    pc,                 \* per connection: "idle", "awaiting" (suspended in axios.post), "done"
    req,                \* per connection: the request (endpoint and req.body fields)
    outbound,           \* per connection: the axios.post calls issued for the request, in order
    reply,              \* per connection: how the upstream call settled
    res,                \* per connection: the response sent (status and JSON body)
    served,             \* number of requests accepted so far
    \* the browser client (public/script.js)
    inputValue,         \* inputText.value, a sequence of characters
    outputValue,        \* outputText.value
    translateDisabled,  \* translateBtn.disabled
    copyDisabled,       \* copyBtn.disabled
    loadingHidden,      \* loading.classList contains 'hidden'
    notice,             \* the notification: its text, type and whether it is hidden
    fetches,            \* the fetches sent and not yet handled, oldest first (their text)
    sent                \* number of fetches sent so far

serverVars == <<TRANSLATION_MODES, pc, req, outbound, reply, res, served>>

clientVars ==
    <<inputValue, outputValue, translateDisabled, copyDisabled, loadingHidden,
      notice, fetches, sent>>

vars == <<serverVars, clientVars>>

\* Bound on the number of requests accepted in one run.
MaxRequests == 2

\* Bound on the number of fetches the browser client sends in one run.
MaxFetches == 3

\* Connections that may be open at the same time.
Conns == {"c1", "c2"}

(***************************************************************************)
(* JavaScript values: a type tag and a payload.  Strings are sequences of  *)
(* chunks so that concatenation and trimming are computed.                 *)
(***************************************************************************)
Undefined == [t |-> "undefined", v |-> <<>>]
Str(s) == [t |-> "string", v |-> s]
Arr(xs) == [t |-> "array", v |-> xs]
Bool(b) == [t |-> "boolean", v |-> b]
Fn(name) == [t |-> "function", v |-> name]
Obj(fields) == [t |-> "object", v |-> fields]

\* ToBoolean, as used by `!text` and `!TRANSLATION_MODES[mode]`.
Truthy(x) ==
    CASE x.t = "undefined" -> FALSE
      [] x.t = "string" -> x.v # <<>>
      [] x.t = "boolean" -> x.v
      [] OTHER -> TRUE

\* Destructuring default `name = dflt`: applies only to undefined.
Default(x, dflt) == IF x = Undefined THEN dflt ELSE x

\* ToPropertyKey for the computed member access TRANSLATION_MODES[mode].
RECURSIVE ToPropertyKey(_)
ToPropertyKey(x) ==
    CASE x.t = "string" -> x.v
      [] x.t = "array" -> IF Len(x.v) = 1 THEN ToPropertyKey(x.v[1]) ELSE <<"[list]">>
      [] OTHER -> <<x.t>>

\* x || y
Or(x, y) == IF Truthy(x) THEN x ELSE y

Whitespace == {" "}

\* String.prototype.trim on a sequence of characters.
RECURSIVE TrimLeft(_)
TrimLeft(s) == IF s # <<>> /\ Head(s) \in Whitespace THEN TrimLeft(Tail(s)) ELSE s

RECURSIVE TrimRight(_)
TrimRight(s) ==
    IF s # <<>> /\ s[Len(s)] \in Whitespace THEN TrimRight(SubSeq(s, 1, Len(s) - 1)) ELSE s

Trim(s) == TrimRight(TrimLeft(s))

(***************************************************************************)
(* The mode registry.  Each systemPrompt is abbreviated to its first       *)
(* sentence, which already differs from mode to mode.                      *)
(***************************************************************************)
ModeEntry(id, name, description, systemPrompt) ==
    [id |-> <<id>>, name |-> Str(<<name>>), description |-> Str(<<description>>),
     systemPrompt |-> Str(<<systemPrompt>>)]

InitialModes ==
    << ModeEntry("formal", "Formal",
           "Professional and formal Vietnamese suitable for business documents",
           "You are a professional translator specializing in formal Vietnamese translations."),
       ModeEntry("casual", "Casual",
           "Everyday conversational Vietnamese for informal communication",
           "You are a professional translator specializing in casual Vietnamese translations."),
       ModeEntry("technical", "Technical",
           "Technical Vietnamese with specialized terminology for technical documents",
           "You are a professional translator specializing in technical Vietnamese translations."),
       ModeEntry("creative", "Creative",
           "Creative and expressive Vietnamese for artistic and creative content",
           "You are a professional translator specializing in creative Vietnamese translations.") >>

\* Object.keys(obj): own enumerable keys in insertion order.
ObjectKeys(obj) == [i \in 1..Len(obj) |-> obj[i].id]

\* Properties every object literal inherits from Object.prototype, each a
\* function value carrying its own `name`.
ObjectPrototype ==
    [k \in {<<"constructor">>, <<"toString">>, <<"hasOwnProperty">>, <<"valueOf">>} |->
        IF k = <<"constructor">> THEN Fn(<<"Object">>) ELSE Fn(k)]

\* obj[key]: an own property, else one inherited from Object.prototype, else undefined.
Lookup(obj, key) ==
    IF \E i \in 1..Len(obj) : obj[i].id = key
      THEN LET i == CHOOSE j \in 1..Len(obj) : obj[j].id = key
           IN  Obj([name |-> obj[i].name, description |-> obj[i].description,
                    systemPrompt |-> obj[i].systemPrompt])
      ELSE IF key \in DOMAIN ObjectPrototype THEN ObjectPrototype[key] ELSE Undefined

\* value.prop for the three properties the handler reads off selectedMode.
Prop(x, p) ==
    CASE x.t = "object" -> x.v[p]
      [] x.t = "function" /\ p = "name" -> Str(x.v)
      [] OTHER -> Undefined

(***************************************************************************)
(* Requests and upstream outcomes.                                         *)
(***************************************************************************)
Texts == {Undefined, Str(<<>>), Str(<<" ">>), Str(<<"a", " ">>), Str(<<"b">>)}

ModeInputs ==
    {Undefined, Str(<<"formal">>), Str(<<"creative">>), Str(<<"bogus">>),
     Str(<<"constructor">>), Arr(<<Str(<<"formal">>)>>)}

\* The browser client sends no targetLanguage (public/script.js line 49).
TargetLanguages == {Undefined}

Bodies == [text : Texts, targetLanguage : TargetLanguages, mode : ModeInputs]

NoBody == [text |-> Undefined, targetLanguage |-> Undefined, mode |-> Undefined]

NoRequest == [ep |-> "none", body |-> NoBody]

\* How an axios.post call can settle.  kind "response": the upstream answered
\* with `status`; `shape` says what reading the completion off response.data
\* does ("full": yields `content`; "no_content": the path ends in undefined;
\* "throws": an intermediate object is missing, a TypeError; "none": never
\* read, the call was rejected); `detail` is
\* response.data.error(.message).  kind "transport": no response at all.
Outcome(kind, status, shape, content, detail) ==
    [kind |-> kind, status |-> status, shape |-> shape, content |-> content, detail |-> detail]

Outcomes ==
    { Outcome("response", 200, "full", Str(<<"x", " ">>), Undefined),
      Outcome("response", 200, "full", Str(<<"y">>), Undefined),
      Outcome("response", 200, "no_content", Undefined, Undefined),
      Outcome("response", 200, "throws", Undefined, Undefined),
      Outcome("response", 401, "none", Undefined, Str(<<"Incorrect API key provided">>)),
      Outcome("response", 429, "none", Undefined, Undefined),
      Outcome("response", 500, "none", Undefined, Str(<<"The server had an error">>)),
      Outcome("transport", 0, "none", Undefined, Undefined) }

NoReply == Outcome("none", 0, "none", Undefined, Undefined)

\* res.json(fields): JSON.stringify leaves out the keys whose value is undefined.
Json(fields) == [k \in {k \in DOMAIN fields : fields[k] # Undefined} |-> fields[k]]

Response(status, fields) == [status |-> status, body |-> Json(fields)]

NoResponse == [status |-> 0, body |-> Json([error |-> Undefined])]

OPENAI_API_URL == "https://api.openai.com/v1/chat/completions"

LEGACY_API_URL == "https://gpt-api.niteco.se/api/chat-completion"

LegacyPrompt == Str(<<"You are a professional translator.">>)

\* `Translate this text to Vietnamese: ${text}`
UserMessage(text) == Str(<<"Translate this text to Vietnamese: ">> \o text.v)

(***************************************************************************)
(* axios.post and the errors a handler's try block can catch.              *)
(***************************************************************************)
\* axios rejects when there is no response or the status is outside 2xx.
Rejects(o) == o.kind = "transport" \/ o.status < 200 \/ o.status >= 300

NoError == [thrown |-> FALSE, hasResponse |-> FALSE, status |-> 0,
            detail |-> Undefined, message |-> Undefined]

AxiosError(o) ==
    [thrown |-> TRUE, hasResponse |-> o.kind = "response", status |-> o.status,
     detail |-> o.detail,
     message |-> IF o.kind = "response"
                   THEN Str(<<"Request failed with status code">>)
                   ELSE Str(<<"Network Error">>)]

TypeError ==
    [thrown |-> TRUE, hasResponse |-> FALSE, status |-> 0, detail |-> Undefined,
     message |-> Str(<<"Cannot read properties of undefined">>)]

\* What the try block throws between the await and res.json, if anything.
Thrown(o) ==
    IF Rejects(o) THEN AxiosError(o)
    ELSE IF o.shape = "throws" THEN TypeError
    ELSE NoError

\* response.data.choices[0].message.content, or response.data.content.
Completion(o) == IF o.shape = "full" THEN o.content ELSE Undefined

(***************************************************************************)
(* GET /api/modes                                                          *)
(***************************************************************************)
\* ModesResponse with the keys listed in alphabetical order.
ModesResponse_sorted(registry) ==
    LET order == <<2, 4, 1, 3>>
    IN  Response(200,
            [success |-> Bool(TRUE),
             modes |-> Arr([i \in 1..Len(registry) |->
                             [id |-> Str(ObjectKeys(registry)[order[i]]),
                              name |-> registry[order[i]].name,
                              description |-> registry[order[i]].description,
                              systemPrompt |-> registry[order[i]].systemPrompt]])])

ModesResponse(registry) ==
    Response(200,
        [success |-> Bool(TRUE),
         modes |-> Arr([i \in 1..Len(registry) |->
                         [id |-> Str(ObjectKeys(registry)[i]),
                          name |-> registry[i].name,
                          description |-> registry[i].description,
                          systemPrompt |-> registry[i].systemPrompt]])])

(***************************************************************************)
(* POST /api/translate                                                     *)
(***************************************************************************)
ModeOf(body) == Default(body.mode, Str(<<"formal">>))

SelectedMode(body, registry) == Lookup(registry, ToPropertyKey(ModeOf(body)))

\* The two early returns; NoResponse when the request passes both.
TranslateReject(body, registry) ==
    IF ~Truthy(body.text)
      THEN Response(400, [error |-> Str(<<"Text is required">>)])
    ELSE IF ~Truthy(SelectedMode(body, registry))
      THEN Response(400, [error |-> Str(<<"Invalid mode">>),
                          availableModes |-> Arr(ObjectKeys(registry))])
    ELSE NoResponse

TranslateCall(body, registry) ==
    [url |-> OPENAI_API_URL,
     system |-> Prop(SelectedMode(body, registry), "systemPrompt"),
     user |-> UserMessage(body.text)]

\* TranslateSuccess with `text` kept in a variable shared by all requests, so
\* that a request still awaiting its call has overwritten it.
TranslateSuccess_shared(body, registry, o) ==
    LET later == {d \in Conns : pc[d] = "awaiting" /\ req[d].body.text # body.text}
        shared == IF later = {} THEN body.text ELSE req[CHOOSE d \in later : TRUE].body.text
    IN  Response(200,
            [success |-> Bool(TRUE),
             originalText |-> shared,
             translatedText |-> Completion(o),
             targetLanguage |-> Default(body.targetLanguage, Str(<<"vietnamese">>)),
             mode |-> ModeOf(body),
             modeName |-> Prop(SelectedMode(body, registry), "name"),
             modeDescription |-> Prop(SelectedMode(body, registry), "description")])

\* TranslateSuccess with both texts trimmed.
TranslateSuccess_trimmed(body, registry, o) ==
    Response(200,
        [success |-> Bool(TRUE),
         originalText |-> Str(Trim(body.text.v)),
         translatedText |-> IF Completion(o) = Undefined THEN Undefined
                            ELSE Str(Trim(Completion(o).v)),
         targetLanguage |-> Default(body.targetLanguage, Str(<<"vietnamese">>)),
         mode |-> ModeOf(body),
         modeName |-> Prop(SelectedMode(body, registry), "name"),
         modeDescription |-> Prop(SelectedMode(body, registry), "description")])

TranslateSuccess(body, registry, o) ==
    Response(200,
        [success |-> Bool(TRUE),
         originalText |-> body.text,
         translatedText |-> Completion(o),
         targetLanguage |-> Default(body.targetLanguage, Str(<<"vietnamese">>)),
         mode |-> ModeOf(body),
         modeName |-> Prop(SelectedMode(body, registry), "name"),
         modeDescription |-> Prop(SelectedMode(body, registry), "description")])

\* TranslateCatch without the 429 branch.
TranslateCatch_no429(error) ==
    IF error.hasResponse /\ error.status = 401
      THEN Response(401, [error |-> Str(<<"OpenAI API key is invalid or missing">>),
                          message |-> Str(<<"Please check your OpenAI API key configuration">>)])
    ELSE Response(500, [error |-> Str(<<"Translation failed">>),
                        message |-> Or(error.detail, error.message)])

TranslateCatch(error) ==
    IF error.hasResponse /\ error.status = 401
      THEN Response(401, [error |-> Str(<<"OpenAI API key is invalid or missing">>),
                          message |-> Str(<<"Please check your OpenAI API key configuration">>)])
    ELSE IF error.hasResponse /\ error.status = 429
      THEN Response(429, [error |-> Str(<<"OpenAI API rate limit exceeded">>),
                          message |-> Str(<<"Please try again later or upgrade your OpenAI plan">>)])
    ELSE Response(500, [error |-> Str(<<"Translation failed">>),
                        message |-> Or(error.detail, error.message)])

(***************************************************************************)
(* POST /api/translate/legacy                                              *)
(***************************************************************************)
LegacyReject(body) ==
    IF ~Truthy(body.text)
      THEN Response(400, [error |-> Str(<<"Text is required">>)])
      ELSE NoResponse

LegacyCall(body) ==
    [url |-> LEGACY_API_URL, system |-> LegacyPrompt, user |-> UserMessage(body.text)]

\* LegacySuccess echoing the request's mode when one is given.
LegacySuccess_echoMode(body, o) ==
    Response(200,
        [success |-> Bool(TRUE),
         originalText |-> body.text,
         translatedText |-> Completion(o),
         targetLanguage |-> Default(body.targetLanguage, Str(<<"vietnamese">>)),
         mode |-> Default(body.mode, Str(<<"legacy">>))])

LegacySuccess(body, o) ==
    Response(200,
        [success |-> Bool(TRUE),
         originalText |-> body.text,
         translatedText |-> Completion(o),
         targetLanguage |-> Default(body.targetLanguage, Str(<<"vietnamese">>)),
         mode |-> Str(<<"legacy">>)])

LegacyCatch(error) ==
    Response(500, [error |-> Str(<<"Translation failed">>),
                   message |-> Or(error.detail, error.message)])

(***************************************************************************)
(* The browser client, public/script.js.  translateText runs from its      *)
(* entry to `await fetch` in one step; it resumes, once per fetch, when     *)
(* that fetch's response or failure arrives.                               *)
(***************************************************************************)
InputValues == {<<>>, <<" ">>, <<"a">>, <<" ", "b">>}

Notice(message, type) == [message |-> message, type |-> type, hidden |-> FALSE]

NoNotice == [message |-> "", type |-> "", hidden |-> TRUE]

\* How a fetch and the reading of its JSON body can end: data with success
\* true, data without success (with or without a message), or an exception.
FetchResult(kind, translatedText, message) ==
    [kind |-> kind, translatedText |-> translatedText, message |-> message]

FetchResults ==
    { FetchResult("success", <<"x">>, ""),
      FetchResult("failure", <<>>, "Please check your OpenAI API key configuration"),
      FetchResult("failure", <<>>, ""),
      FetchResult("exception", <<>>, "Failed to fetch") }

\* The state after the DOMContentLoaded handler.
ClientInit ==
    /\ inputValue = <<>>
    /\ outputValue = <<>>
    /\ translateDisabled = TRUE
    /\ copyDisabled = TRUE
    /\ loadingHidden = TRUE
    /\ notice = NoNotice
    /\ fetches = <<>>
    /\ sent = 0

\* translateText up to its early return or its `await fetch`.
translateText ==
    LET text == Trim(inputValue)
    IN  IF text = <<>>
          THEN /\ notice' = Notice("Please enter some text to translate", "error")
               /\ UNCHANGED <<inputValue, outputValue, translateDisabled, copyDisabled,
                              loadingHidden, fetches, sent>>
          ELSE /\ sent < MaxFetches
               /\ loadingHidden' = FALSE
               /\ translateDisabled' = TRUE
               /\ outputValue' = <<>>
               /\ copyDisabled' = TRUE
               /\ fetches' = Append(fetches, text)
               /\ sent' = sent + 1
               /\ UNCHANGED <<inputValue, notice>>

\* The user edits the input: the 'input' event runs handleInputChange.
handleInputChange(v) ==
    /\ v # inputValue
    /\ inputValue' = v
    /\ translateDisabled' = (Trim(v) = <<>>)
    /\ UNCHANGED <<outputValue, copyDisabled, loadingHidden, notice, fetches, sent>>
    /\ UNCHANGED serverVars

\* A click on translateBtn; a disabled button delivers no click.
ClickTranslate ==
    /\ ~translateDisabled
    /\ translateText
    /\ UNCHANGED serverVars

\* Ctrl+Enter in the input: the keydown listener calls translateText itself.
CtrlEnter ==
    /\ translateText
    /\ UNCHANGED serverVars

\* A click on clearBtn.
clearText ==
    /\ inputValue' = <<>>
    /\ outputValue' = <<>>
    /\ copyDisabled' = TRUE
    /\ translateDisabled' = TRUE
    /\ notice' = Notice("Text cleared", "success")
    /\ UNCHANGED <<loadingHidden, fetches, sent>>
    /\ UNCHANGED serverVars

\* The message of the error caught by translateText.
ErrorMessage(r) ==
    IF r.kind = "failure" /\ r.message = "" THEN "Translation failed" ELSE r.message

\* The i-th pending fetch ends as r and its translateText runs to its end.
FetchSettled(i, r) ==
    /\ i \in 1..Len(fetches)
    /\ fetches' = [j \in 1..(Len(fetches) - 1) |-> IF j < i THEN fetches[j] ELSE fetches[j + 1]]
    /\ IF r.kind = "success"
         THEN /\ outputValue' = r.translatedText
              /\ copyDisabled' = FALSE
              /\ notice' = Notice("Translation completed successfully!", "success")
         ELSE /\ outputValue' = <<"Translation failed. Please try again.">>
              /\ notice' = Notice(ErrorMessage(r), "error")
              /\ UNCHANGED copyDisabled
    /\ loadingHidden' = TRUE
    /\ translateDisabled' = FALSE
    /\ UNCHANGED <<inputValue, sent>>
    /\ UNCHANGED serverVars

\* A timer set by showNotification fires: one is pending whenever the
\* notification is shown.
HideNotification ==
    /\ ~notice.hidden
    /\ notice' = [notice EXCEPT !.hidden = TRUE]
    /\ UNCHANGED <<inputValue, outputValue, translateDisabled, copyDisabled,
                   loadingHidden, fetches, sent>>
    /\ UNCHANGED serverVars

ClientNext ==
    \/ \E v \in InputValues : handleInputChange(v)
    \/ ClickTranslate
    \/ CtrlEnter
    \/ clearText
    \/ \E i \in 1..MaxFetches, r \in FetchResults : FetchSettled(i, r)
    \/ HideNotification

(***************************************************************************)
(* The handlers as run by the server.                                      *)
(***************************************************************************)
Endpoints == {"translate", "legacy"}

\* The response sent before any await, or NoResponse.
Reject(ep, body, registry) ==
    IF ep = "translate" THEN TranslateReject(body, registry) ELSE LegacyReject(body)

\* CallsIssued with the call made before the request is validated.
CallsIssued_beforeValidation(ep, body, registry) ==
    IF ep = "translate" THEN <<TranslateCall(body, registry)>> ELSE <<LegacyCall(body)>>

\* The axios.post calls the handler issues on its way to the await.
CallsIssued(ep, body, registry) ==
    IF Reject(ep, body, registry).status # 0 THEN <<>>
    ELSE IF ep = "translate" THEN <<TranslateCall(body, registry)>>
    ELSE <<LegacyCall(body)>>

\* The response sent once the awaited call has settled as o.
Resume(ep, body, registry, o) ==
    IF ep = "translate"
      THEN IF Thrown(o).thrown THEN TranslateCatch(Thrown(o))
           ELSE TranslateSuccess(body, registry, o)
      ELSE IF Thrown(o).thrown THEN LegacyCatch(Thrown(o))
           ELSE LegacySuccess(body, o)

Init ==
    /\ TRANSLATION_MODES = InitialModes
    /\ pc = [c \in Conns |-> "idle"]
    /\ req = [c \in Conns |-> NoRequest]
    /\ outbound = [c \in Conns |-> <<>>]
    /\ reply = [c \in Conns |-> NoReply]
    /\ res = [c \in Conns |-> NoResponse]
    /\ served = 0
    /\ ClientInit

\* app.get('/api/modes'): answers at once.
GetModes(c) ==
    /\ pc[c] = "idle"
    /\ served < MaxRequests
    /\ served' = served + 1
    /\ req' = [req EXCEPT ![c] = [ep |-> "modes", body |-> NoBody]]
    /\ res' = [res EXCEPT ![c] = ModesResponse(TRANSLATION_MODES)]
    /\ pc' = [pc EXCEPT ![c] = "done"]
    /\ UNCHANGED <<TRANSLATION_MODES, outbound, reply>>
    /\ UNCHANGED clientVars

\* A POST handler from its entry to its early return or to its await.
Receive(c, ep, body) ==
    /\ pc[c] = "idle"
    /\ served < MaxRequests
    /\ served' = served + 1
    /\ req' = [req EXCEPT ![c] = [ep |-> ep, body |-> body]]
    /\ outbound' = [outbound EXCEPT ![c] = CallsIssued(ep, body, TRANSLATION_MODES)]
    /\ LET early == Reject(ep, body, TRANSLATION_MODES)
       IN  IF early.status # 0
             THEN /\ res' = [res EXCEPT ![c] = early]
                  /\ pc' = [pc EXCEPT ![c] = "done"]
             ELSE /\ res' = res
                  /\ pc' = [pc EXCEPT ![c] = "awaiting"]
    /\ UNCHANGED <<TRANSLATION_MODES, reply>>
    /\ UNCHANGED clientVars

\* The awaited axios.post settles as o and the handler runs to its end.
Settle(c, o) ==
    /\ pc[c] = "awaiting"
    /\ reply' = [reply EXCEPT ![c] = o]
    /\ res' = [res EXCEPT ![c] = Resume(req[c].ep, req[c].body, TRANSLATION_MODES, o)]
    /\ pc' = [pc EXCEPT ![c] = "done"]
    /\ UNCHANGED <<TRANSLATION_MODES, req, outbound, served>>
    /\ UNCHANGED clientVars

\* The request/response cycle is over; nothing of it is kept.
Close(c) ==
    /\ pc[c] = "done"
    /\ pc' = [pc EXCEPT ![c] = "idle"]
    /\ req' = [req EXCEPT ![c] = NoRequest]
    /\ outbound' = [outbound EXCEPT ![c] = <<>>]
    /\ reply' = [reply EXCEPT ![c] = NoReply]
    /\ res' = [res EXCEPT ![c] = NoResponse]
    /\ UNCHANGED <<TRANSLATION_MODES, served>>
    /\ UNCHANGED clientVars

Next ==
    \/ \E c \in Conns : GetModes(c)
    \/ \E c \in Conns, ep \in Endpoints, body \in Bodies : Receive(c, ep, body)
    \/ \E c \in Conns, o \in Outcomes : Settle(c, o)
    \/ \E c \in Conns : Close(c)

Spec == Init /\ [][Next]_vars

\* The browser client on its own, its fetches answered in any way.
SpecClient == Init /\ [][ClientNext]_vars

(***************************************************************************)
(* Vocabulary of the properties below.                                     *)
(***************************************************************************)
ValidModeIds == {<<"formal">>, <<"casual">>, <<"technical">>, <<"creative">>}

\* The request on c has been taken up by its handler.
Active(c, ep) == pc[c] # "idle" /\ req[c].ep = ep

Answered(c, ep) == pc[c] = "done" /\ req[c].ep = ep

Succeeded(c, ep) == Answered(c, ep) /\ res[c].status = 200

\* text is absent, empty, or only whitespace.
Blank(text) == text = Undefined \/ (text.t = "string" /\ Trim(text.v) = <<>>)

Has(c, key) == key \in DOMAIN res[c].body

\* C1: every /api/translate request whose text is absent, empty or only
\* whitespace is answered 400 and causes no outbound call.
C1_BlankTextRejected ==
    \A c \in Conns :
        (Active(c, "translate") /\ Blank(req[c].body.text))
            => (pc[c] = "done" /\ res[c].status = 400 /\ outbound[c] = <<>>)

\* C2: every /api/translate request that carries text and a mode value other
\* than one of the four mode ids is answered 400 with the list of valid mode
\* ids in the body, and causes no outbound call.
C2_UnknownModeRejected ==
    \A c \in Conns :
        (/\ Active(c, "translate")
         /\ Truthy(req[c].body.text)
         /\ req[c].body.mode # Undefined
         /\ req[c].body.mode \notin {Str(id) : id \in ValidModeIds})
            => (/\ pc[c] = "done"
                /\ res[c].status = 400
                /\ Has(c, "availableModes")
                /\ outbound[c] = <<>>)

\* C3: every successful /api/translate result carries a mode field whose
\* value is the id of a mode in the registry.
C3_ResultModeInRegistry ==
    \A c \in Conns :
        Succeeded(c, "translate")
            => (/\ Has(c, "mode")
                /\ \E i \in 1..Len(TRANSLATION_MODES) :
                       res[c].body["mode"] = Str(TRANSLATION_MODES[i].id))

\* The awaited call on c was rejected by axios: no response, or a status outside 2xx.
Rejected(c) == reply[c].kind # "none" /\ Rejects(reply[c])

\* The awaited call on c was answered 2xx with a body of the given shape.
Answered2xx(c, shape) ==
    reply[c].kind = "response" /\ ~Rejects(reply[c]) /\ reply[c].shape = shape

C5_NoCrossContamination ==
    \A c, d \in Conns :
        (c # d /\ Succeeded(c, "translate") /\ Active(d, "translate")) =>
            /\ Has(c, "originalText")
            /\ res[c].body["originalText"] = req[c].body.text
            /\ IF Has(c, "translatedText")
                 THEN res[c].body["translatedText"] = reply[c].content
                 ELSE reply[c].content = Undefined

\* Two requests with different texts were in flight together and both are
\* answered successfully, with different completions.
C5_Witness ==
    \E c, d \in Conns :
        /\ c # d
        /\ Succeeded(c, "translate") /\ Succeeded(d, "translate")
        /\ req[c].body.text # req[d].body.text
        /\ Has(c, "translatedText") /\ Has(d, "translatedText")
        /\ res[c].body["translatedText"] # res[d].body["translatedText"]
        /\ res[c].body["originalText"] # res[d].body["originalText"]

\* C6: a translation request (either endpoint) causes at most one outbound
\* call: exactly one once the handler's validation has passed, none when the
\* request is answered 400, and none is added after the call has settled,
\* whatever the failure.
C6_AtMostOneCall ==
    /\ [](\A c \in Conns :
            /\ Len(outbound[c]) <= 1
            /\ \A ep \in Endpoints :
                  /\ (Active(c, ep) /\ pc[c] = "awaiting") => Len(outbound[c]) = 1
                  /\ (Answered(c, ep) /\ res[c].status = 400) => Len(outbound[c]) = 0
                  /\ (Answered(c, ep) /\ res[c].status # 400) => Len(outbound[c]) = 1)
    /\ [][\A c \in Conns :
            (pc[c] = "done" /\ pc'[c] = "done") => outbound'[c] = outbound[c]]_vars

\* Every class of failure has been seen with exactly one call behind it: a
\* request answered 429 and a request answered 500.
C6_Witness ==
    \E c, d \in Conns :
        /\ Answered(c, "translate") /\ res[c].status = 429 /\ Len(outbound[c]) = 1
        /\ Answered(d, "legacy") /\ res[d].status = 500 /\ Len(outbound[d]) = 1

\* C7: given a successful upstream response to an /api/translate request,
\* translatedText is the first completion's content and originalText is the
\* submitted text, both unchanged (surrounding whitespace included).
C7_Verbatim ==
    \A c \in Conns :
        (Succeeded(c, "translate") /\ Answered2xx(c, "full")) =>
            /\ Has(c, "translatedText") /\ Has(c, "originalText")
            /\ res[c].body["translatedText"].v = reply[c].content.v
            /\ res[c].body["originalText"].v = req[c].body.text.v

\* A text and a completion that both end in whitespace have been passed through.
C7_Witness ==
    \E c \in Conns :
        /\ Succeeded(c, "translate") /\ Answered2xx(c, "full")
        /\ req[c].body.text = Str(<<"a", " ">>)
        /\ reply[c].content = Str(<<"x", " ">>)
        /\ res[c].body["originalText"] = Str(<<"a", " ">>)
        /\ res[c].body["translatedText"] = Str(<<"x", " ">>)

\* C8: every failure response of /api/translate (400, 401, 429 or 500)
\* carries both an error field and a message field.
C8_ErrorAndMessage ==
    \A c \in Conns :
        (Answered(c, "translate") /\ res[c].status \in {400, 401, 429, 500})
            => (Has(c, "error") /\ Has(c, "message"))

\* C9: /api/translate/legacy ignores the mode field: two legacy requests that
\* differ at most in mode issue the same outbound call and, for the same
\* upstream outcome, get the same response; a successful result reports
\* mode "legacy".
C9_LegacyIgnoresMode ==
    /\ \A c, d \in Conns :
          (/\ Active(c, "legacy") /\ Active(d, "legacy")
           /\ req[c].body.text = req[d].body.text
           /\ req[c].body.targetLanguage = req[d].body.targetLanguage)
              => /\ outbound[c] = outbound[d]
                 /\ (pc[c] = pc[d] /\ reply[c] = reply[d])
                        => (res[c].status = res[d].status /\ res[c].body = res[d].body)
    /\ \A c \in Conns :
          Succeeded(c, "legacy")
              => (Has(c, "mode") /\ res[c].body["mode"] = Str(<<"legacy">>))

\* Two legacy requests with the same text, one with a valid mode and one with
\* an invalid mode, have both been answered successfully.
C9_Witness ==
    \E c, d \in Conns :
        /\ Succeeded(c, "legacy") /\ Succeeded(d, "legacy")
        /\ req[c].body.text = req[d].body.text
        /\ req[c].body.mode = Str(<<"creative">>)
        /\ req[d].body.mode = Str(<<"bogus">>)
        /\ reply[c] = reply[d]

\* C10: after any sequence of requests, GET /api/modes returns exactly four
\* entries with ids formal, casual, technical, creative in that order, each
\* with a non-empty name and description, and no handler changes the registry.
C10_ModesStable ==
    /\ [](\A c \in Conns :
            Answered(c, "modes") =>
                /\ res[c].status = 200
                /\ Has(c, "modes")
                /\ LET m == res[c].body["modes"].v
                   IN  /\ Len(m) = 4
                       /\ [i \in 1..Len(m) |-> m[i].id] =
                              << Str(<<"formal">>), Str(<<"casual">>),
                                 Str(<<"technical">>), Str(<<"creative">>) >>
                       /\ \A i \in 1..Len(m) :
                              /\ m[i].name.t = "string" /\ m[i].name.v # <<>>
                              /\ m[i].description.t = "string"
                              /\ m[i].description.v # <<>>)
    /\ [][TRANSLATION_MODES' = TRANSLATION_MODES]_vars

\* GET /api/modes has been answered after an earlier translation request ran
\* to its end on the other connection.
C10_Witness ==
    \E c, d \in Conns :
        /\ Answered(c, "modes") /\ res[c].status = 200
        /\ Succeeded(d, "translate")
        /\ served = MaxRequests

\* C11: in the browser client at most one translation request is in flight at
\* any time: no sequence of translate clicks, Ctrl+Enter presses, input edits
\* and clear actions sends a second fetch before the first has been handled.
C11_OneFetchInFlight == Len(fetches) <= 1

====
